---- MODULE Spec2Model ----
(***************************************************************************)
(* A model of adsb2influx.py: the MSG grammar and normaliser, the aircraft *)
(* cache of AdsbProcessor (msg, clear, age), the line framing of           *)
(* Dump1090.receive, the line-protocol encoding of InfluxDB.write and the  *)
(* collector loop of main.                                                 *)
(*                                                                         *)
(* Text is modelled by TLA+ strings; a character is a string of length 1.  *)
(* Python values are tagged records: [t |-> "str", v |-> "TEST"],          *)
(* [t |-> "int", v |-> 5], [t |-> "bool", v |-> TRUE] and                  *)
(* [t |-> "float", m |-> -1, e |-> 1] (the decimal m * 10^-e).             *)
(* time.time() is the variable now, an integer number of seconds.          *)
(***************************************************************************)
EXTENDS Integers, Sequences, FiniteSets, TLC

(***************************************************************************)
(* Characters and the character classes of the regular expression.         *)
(***************************************************************************)
Digits == {"0", "1", "2", "3", "4", "5", "6", "7", "8", "9"}

HexDigits == Digits \cup {"A", "B", "C", "D", "E", "F"}

Letters == {"A", "B", "C", "D", "E", "F", "G", "H", "I", "J", "K", "L", "M",
            "N", "O", "P", "Q", "R", "S", "T", "U", "V", "W", "X", "Y", "Z",
            "a", "b", "c", "d", "e", "f", "g", "h", "i", "j", "k", "l", "m",
            "n", "o", "p", "q", "r", "s", "t", "u", "v", "w", "x", "y", "z"}

\* \w
WordChars == Digits \cup Letters \cup {"_"}

\* \s, and the characters str.strip() removes
SpaceChars == {" ", "\t", "\n", "\r", "\f"}

Char(s, i) == SubSeq(s, i, i)

AllIn(s, cls) == \A i \in 1..Len(s) : Char(s, i) \in cls

\* str.find(sub, from): the first position >= from at which sub occurs, 0 if none
\* (positions are 1-based here; Python's -1 is 0).
Find(s, sub, from) ==
    LET hits == {i \in from..(Len(s) - Len(sub) + 1) : SubSeq(s, i, i + Len(sub) - 1) = sub}
    IN  IF hits = {} THEN 0 ELSE CHOOSE i \in hits : \A j \in hits : i <= j

\* The pieces of s between the positions cuts, the first starting at start.
RECURSIVE Pieces(_, _, _)
Pieces(s, cuts, start) ==
    IF cuts = {} THEN <<SubSeq(s, start, Len(s))>>
    ELSE LET p == CHOOSE i \in cuts : \A j \in cuts : i <= j
         IN  <<SubSeq(s, start, p - 1)>> \o Pieces(s, cuts \ {p}, p + 1)

\* str.split(sep) for a one-character separator.
Split(s, sep) == Pieces(s, {i \in 1..Len(s) : Char(s, i) = sep}, 1)

\* str.strip()
RECURSIVE LStrip(_)
LStrip(s) == IF Len(s) > 0 /\ Char(s, 1) \in SpaceChars THEN LStrip(Tail(s)) ELSE s

RECURSIVE RStrip(_)
RStrip(s) ==
    IF Len(s) > 0 /\ Char(s, Len(s)) \in SpaceChars
    THEN RStrip(SubSeq(s, 1, Len(s) - 1)) ELSE s

Strip(s) == RStrip(LStrip(s))

DigitValue(c) ==
    CASE c = "0" -> 0 [] c = "1" -> 1 [] c = "2" -> 2 [] c = "3" -> 3
      [] c = "4" -> 4 [] c = "5" -> 5 [] c = "6" -> 6 [] c = "7" -> 7
      [] c = "8" -> 8 [] c = "9" -> 9

\* The number a non-empty string of digits denotes.
RECURSIVE DigitsValue(_)
DigitsValue(s) ==
    IF Len(s) = 0 THEN 0
    ELSE 10 * DigitsValue(SubSeq(s, 1, Len(s) - 1)) + DigitValue(Char(s, Len(s)))

IsDigits(s) == Len(s) > 0 /\ AllIn(s, Digits)

(***************************************************************************)
(* Python values.                                                          *)
(***************************************************************************)
PyStr(s) == [t |-> "str", v |-> s]

PyInt(n) == [t |-> "int", v |-> n]

PyBool(b) == [t |-> "bool", v |-> b]

RECURSIVE FloatNorm(_, _)
FloatNorm(m, e) == IF e > 0 /\ m % 10 = 0 THEN FloatNorm(m \div 10, e - 1) ELSE [t |-> "float", m |-> m, e |-> e]

PyFloat(m, e) == FloatNorm(m, e)

\* int(v) for the texts the grammar lets through (digits and "-"): an optional
\* sign and at least one digit, anything else raises ValueError.
IntValid(v) == IsDigits(v) \/ (Len(v) > 1 /\ Char(v, 1) = "-" /\ IsDigits(Tail(v)))

IntOf(v) == IF Char(v, 1) = "-" THEN 0 - DigitsValue(Tail(v)) ELSE DigitsValue(v)

\* float(v) for the texts the grammar lets through (digits, "-" and "."): an
\* optional sign, digits with at most one "." among them and at least one digit.
FloatValid(v) ==
    LET u == IF Len(v) > 0 /\ Char(v, 1) = "-" THEN Tail(v) ELSE v
        parts == Split(u, ".")
    IN  /\ Len(parts) \in {1, 2}
        /\ \A i \in 1..Len(parts) : AllIn(parts[i], Digits)
        /\ \E i \in 1..Len(parts) : Len(parts[i]) > 0

FloatOf(v) ==
    LET neg == Char(v, 1) = "-"
        u == IF neg THEN Tail(v) ELSE v
        parts == Split(u, ".")
        frac == IF Len(parts) = 2 THEN parts[2] ELSE ""
        mag == DigitsValue(parts[1] \o frac)
    IN  PyFloat(IF neg THEN 0 - mag ELSE mag, Len(frac))

(***************************************************************************)
(* AdsbProcessor.REGEXP_MSG: after the literal MSG, 21 comma-separated     *)
(* groups, each a character class repeated lo..hi times (hi = 0: no upper  *)
(* limit).  No class contains the comma, so the expression matches exactly *)
(* when the line splits at its commas into MSG and 21 pieces, each within  *)
(* its class; $ also matches before one final line feed.                   *)
(***************************************************************************)
Group(name, cls, lo, hi) == [name |-> name, cls |-> cls, lo |-> lo, hi |-> hi]

REGEXP_MSG ==
    << Group("transmission", Digits, 1, 1),
       Group("session", Digits, 1, 0),
       Group("aircraft", Digits, 1, 0),
       Group("hexident", HexDigits, 1, 0),
       Group("flight", Digits, 1, 0),
       Group("gen_date", Digits \cup {"/"}, 1, 0),
       Group("gen_time", Digits \cup {":", "."}, 1, 0),
       Group("log_date", Digits \cup {"/"}, 1, 0),
       Group("log_time", Digits \cup {":", "."}, 1, 0),
       Group("callsign", WordChars \cup SpaceChars, 0, 0),
       Group("altitude", Digits, 0, 0),
       Group("speed", Digits, 0, 0),
       Group("track", Digits \cup {"-"}, 0, 0),
       Group("latitude", Digits \cup {"-", "."}, 0, 0),
       Group("longitude", Digits \cup {"-", "."}, 0, 0),
       Group("verticalrate", Digits \cup {"-"}, 0, 0),
       Group("squawk", Digits, 0, 0),
       Group("alert", Digits \cup {"-"}, 0, 0),
       Group("emergency", Digits \cup {"-"}, 0, 0),
       Group("spi", Digits \cup {"-"}, 0, 0),
       Group("onground", Digits \cup {"-"}, 0, 0) >>

GroupNames == {REGEXP_MSG[i].name : i \in 1..Len(REGEXP_MSG)}

GroupIndex(name) == CHOOSE i \in 1..Len(REGEXP_MSG) : REGEXP_MSG[i].name = name

GroupMatches(g, piece) ==
    /\ Len(piece) >= g.lo
    /\ g.hi = 0 \/ Len(piece) <= g.hi
    /\ AllIn(piece, g.cls)

\* A faulty variant: the expression without its final $, which accepts a line
\* whose first 22 pieces match whatever follows them.
re_msg_match_unanchored(data) ==
    LET pieces == Split(data, ",")
        ok == /\ Len(pieces) >= Len(REGEXP_MSG) + 1
              /\ pieces[1] = "MSG"
              /\ \A i \in 1..Len(REGEXP_MSG) : GroupMatches(REGEXP_MSG[i], pieces[i + 1])
    IN  IF ok
        THEN [matched |-> TRUE,
              groupdict |-> [k \in GroupNames |-> pieces[GroupIndex(k) + 1]]]
        ELSE [matched |-> FALSE, groupdict |-> <<>>]

\* self.re_msg.match(data): [matched, groupdict]
re_msg_match(data) ==
    LET body == IF Len(data) > 0 /\ Char(data, Len(data)) = "\n"
                THEN SubSeq(data, 1, Len(data) - 1) ELSE data
        pieces == Split(body, ",")
        ok == /\ Len(pieces) = Len(REGEXP_MSG) + 1
              /\ pieces[1] = "MSG"
              /\ \A i \in 1..Len(REGEXP_MSG) : GroupMatches(REGEXP_MSG[i], pieces[i + 1])
    IN  IF ok
        THEN [matched |-> TRUE,
              groupdict |-> [k \in GroupNames |-> pieces[GroupIndex(k) + 1]]]
        ELSE [matched |-> FALSE, groupdict |-> <<>>]

(***************************************************************************)
(* AdsbProcessor.NORMALIZE_MSG and __normalize_msg.                        *)
(***************************************************************************)
IntFields == {"transmission", "session", "aircraft", "flight", "altitude",
              "speed", "track", "verticalrate"}

FloatFields == {"latitude", "longitude"}

BoolFields == {"alert", "emergency", "spi", "onground"}

\* Whether the field's lambda raises ValueError on the text v.
NormalizeRaises(field, v) ==
    \/ field \in IntFields /\ ~IntValid(v)
    \/ field \in FloatFields /\ ~FloatValid(v)

\* The field's lambda applied to the text v; a field without a lambda stays text.
NORMALIZE_MSG(field, v) ==
    CASE field \in IntFields -> PyInt(IntOf(v))
      [] field \in FloatFields -> FloatOf(v)
      [] field = "callsign" -> PyStr(Strip(v))
      [] field \in BoolFields -> PyBool(v = "-1")
      [] OTHER -> PyStr(v)

\* __normalize_msg(msg): [raised, msg]
normalize_msg(message) ==
    IF \E k \in DOMAIN message : NormalizeRaises(k, message[k])
    THEN [raised |-> TRUE, msg |-> <<>>]
    ELSE [raised |-> FALSE,
          msg |-> [k \in DOMAIN message |-> NORMALIZE_MSG(k, message[k])]]

\* {k: v for k, v in m.groupdict().items() if v}
NonEmptyGroups(groupdict) ==
    [k \in {n \in DOMAIN groupdict : groupdict[n] # ""} |-> groupdict[k]]

(***************************************************************************)
(* Python dicts are functions; the empty dict is <<>>.                     *)
(***************************************************************************)
EmptyDict == <<>>

DictSet(d, k, v) == [x \in DOMAIN d \cup {k} |-> IF x = k THEN v ELSE d[x]]

DictRestrict(d, keys) == [x \in DOMAIN d \cap keys |-> d[x]]

\* A faulty variant: the stored record, but for its counter, is replaced and
\* not merged.
dict_update_replacing(d, other) ==
    [x \in DOMAIN other \cup (DOMAIN d \cap {"count"}) |->
        IF x \in DOMAIN other THEN other[x] ELSE d[x]]

\* dict.update(other): the keys of other overwrite, every other key stays.
dict_update(d, other) ==
    [x \in DOMAIN d \cup DOMAIN other |-> IF x \in DOMAIN other THEN other[x] ELSE d[x]]

\* dict.get(k): None for a missing key
PyNone == [t |-> "None"]

DictGet(d, k) == IF k \in DOMAIN d THEN d[k] ELSE PyNone

\* A counter map read with 0 for a missing key.
DictGet0(d, k) == IF k \in DOMAIN d THEN d[k] ELSE 0

(***************************************************************************)
(* AdsbProcessor.msg(data) at time t on the cache (ac, ages): what it      *)
(* raises and the two maps it leaves.                                      *)
(***************************************************************************)
IncrCount(rec) == DictSet(rec, "count", PyInt(rec["count"].v + 1))

\* Lines 187-192: the first message of an identity is stored with count 1, a
\* later one is merged into the stored record and counted.
MergeMessage(ac, message) ==
    LET hexident == message["hexident"].v
    IN  IF hexident \notin DOMAIN ac
        THEN DictSet(ac, hexident, DictSet(message, "count", PyInt(1)))
        ELSE DictSet(ac, hexident, IncrCount(dict_update(ac[hexident], message)))

msg(ac, ages, data, t) ==
    LET m == re_msg_match(data)
        n == normalize_msg(NonEmptyGroups(m.groupdict))
    IN  IF ~m.matched
        THEN [raised |-> "AdsbError", aircrafts |-> ac, aircrafts_age |-> ages]
        ELSE IF n.raised
        THEN [raised |-> "ValueError", aircrafts |-> ac, aircrafts_age |-> ages]
        ELSE [raised |-> "none",
              aircrafts |-> MergeMessage(ac, n.msg),
              aircrafts_age |-> DictSet(ages, n.msg["hexident"].v, t)]

(***************************************************************************)
(* AdsbProcessor.clear(age) and AdsbProcessor.age(hexident) at time t.     *)
(***************************************************************************)
\* Lines 157-165: the identities the sweep deletes from aircrafts_age.
SweptAges(ac, ages, max_age, t) ==
    {h \in DOMAIN ages : h \notin DOMAIN ac \/ (t - ages[h]) > max_age}

\* A faulty variant: the sweep forgets to delete the record.
SweptAircrafts_none(ac, ages, max_age, t) == {}

\* A faulty variant: the sweep deletes the record at age = max_age already.
SweptAircrafts_ge(ac, ages, max_age, t) ==
    {h \in DOMAIN ages \cap DOMAIN ac : (t - ages[h]) >= max_age}

\* Lines 162-165: the identities the sweep deletes from aircrafts.
SweptAircrafts(ac, ages, max_age, t) ==
    {h \in DOMAIN ages \cap DOMAIN ac : (t - ages[h]) > max_age}

\* A faulty variant: the counts are not reset.
ResetCounts_skipped(ac) == ac

\* Lines 167-168
ResetCounts(ac) == [h \in DOMAIN ac |-> DictSet(ac[h], "count", PyInt(0))]

clear(ac, ages, max_age, t) ==
    [aircrafts |->
        ResetCounts(DictRestrict(ac, DOMAIN ac \ SweptAircrafts(ac, ages, max_age, t))),
     aircrafts_age |->
        DictRestrict(ages, DOMAIN ages \ SweptAges(ac, ages, max_age, t))]

\* A faulty variant: every aircraft counts as just seen.
age_none(ages, hexident, t) == 0

\* Lines 170-172
age(ages, hexident, t) == t - (IF hexident \in DOMAIN ages THEN ages[hexident] ELSE 0)

(***************************************************************************)
(* calendar.timegm(time.strptime(text, '%Y/%m/%d %H:%M:%S.%f')) on the     *)
(* text gen_date + " " + gen_time.  The separators of the format are not   *)
(* digits, so the text parses exactly when it splits at them into pieces   *)
(* that each match their directive; the date must exist in the calendar.   *)
(***************************************************************************)
IsLeap(y) == (y % 4 = 0 /\ y % 100 # 0) \/ y % 400 = 0

DaysInMonth(y, m) ==
    CASE m \in {1, 3, 5, 7, 8, 10, 12} -> 31
      [] m \in {4, 6, 9, 11} -> 30
      [] OTHER -> IF IsLeap(y) THEN 29 ELSE 28

\* A directive that takes one or two digits and a value in lo..hi.
TwoDigits(s, lo, hi) ==
    Len(s) \in {1, 2} /\ AllIn(s, Digits) /\ DigitsValue(s) >= lo /\ DigitsValue(s) <= hi

StrptimeParts(text) ==
    LET halves == Split(text, " ")
        date == Split(halves[1], "/")
        time == Split(halves[2], ":")
        secs == Split(time[3], ".")
    IN  [date |-> date, time |-> time, secs |-> secs]

StrptimeValid(text) ==
    LET halves == Split(text, " ")
    IN  /\ Len(halves) = 2
        /\ LET date == Split(halves[1], "/")
               time == Split(halves[2], ":")
           IN  /\ Len(date) = 3 /\ Len(time) = 3
               /\ Len(date[1]) = 4 /\ AllIn(date[1], Digits)
               /\ DigitsValue(date[1]) >= 1
               /\ TwoDigits(date[2], 1, 12)
               /\ TwoDigits(date[3], 1, 31)
               /\ DigitsValue(date[3]) <= DaysInMonth(DigitsValue(date[1]), DigitsValue(date[2]))
               /\ TwoDigits(time[1], 0, 23)
               /\ TwoDigits(time[2], 0, 59)
               /\ LET secs == Split(time[3], ".")
                  IN  /\ Len(secs) = 2
                      /\ TwoDigits(secs[1], 0, 61)
                      /\ Len(secs[2]) \in 1..6 /\ AllIn(secs[2], Digits)

\* Days from 1970-01-01 to the first day of year y.
DaysBeforeYear(y) ==
    LET z == y - 1
    IN  (z * 365 + z \div 4 - z \div 100 + z \div 400) - 719162

RECURSIVE DaysBeforeMonth(_, _)
DaysBeforeMonth(y, m) == IF m = 1 THEN 0 ELSE DaysBeforeMonth(y, m - 1) + DaysInMonth(y, m - 1)

timegm(text) ==
    LET p == StrptimeParts(text)
        y == DigitsValue(p.date[1])
        days == DaysBeforeYear(y) + DaysBeforeMonth(y, DigitsValue(p.date[2]))
                    + DigitsValue(p.date[3]) - 1
    IN  ((days * 24 + DigitsValue(p.time[1])) * 60 + DigitsValue(p.time[2])) * 60
            + DigitsValue(p.secs[1])

(***************************************************************************)
(* The snapshot of main (lines 356-394) at time t.  INTERVAL is the        *)
(* emission interval in seconds (--send-interval), scaled down.            *)
(***************************************************************************)
INTERVAL == 1

\* A faulty variant: the sweep uses the emission interval itself.
SweepAge_interval == INTERVAL

\* A faulty variant: the threshold is a hundred times too long.
SweepAge_long == INTERVAL * 300

\* The sweep threshold of line 396.
SweepAge == INTERVAL * 3

\* Some enumeration of a finite set: the order of ap.items(), which main does
\* not depend on.
RECURSIVE SeqOf(_)
SeqOf(S) ==
    IF S = {} THEN <<>>
    ELSE LET x == CHOOSE y \in S : TRUE IN <<x>> \o SeqOf(S \ {x})

\* A faulty variant: one of the two keys is enough.
HasIdentity_either(rec) == \E k \in {"callsign", "squawk"} : k \in DOMAIN rec

\* Line 359: all(k in msg for k in ['callsign', 'squawk'])
HasIdentity(rec) == \A k \in {"callsign", "squawk"} : k \in DOMAIN rec

\* A faulty variant: the age is not looked at.
Qualifies_any_age(ac, ages, hexident, t) == HasIdentity(ac[hexident])

\* Lines 359-365: the record is neither skipped for a missing key nor for its age.
Qualifies(ac, ages, hexident, t) ==
    /\ HasIdentity(ac[hexident])
    /\ ~(age(ages, hexident, t) > INTERVAL)

GeneratedText(rec) == rec["gen_date"].v \o " " \o rec["gen_time"].v

\* Lines 374-394
Entry(hexident, rec) ==
    [tags |-> [hexident |-> PyStr(hexident),
               callsign |-> rec["callsign"],
               squawk |-> rec["squawk"]],
     fields |-> [generated |-> PyInt(timegm(GeneratedText(rec))),
                 altitude |-> DictGet(rec, "altitude"),
                 speed |-> DictGet(rec, "speed"),
                 track |-> DictGet(rec, "track"),
                 latitude |-> DictGet(rec, "latitude"),
                 longitude |-> DictGet(rec, "longitude"),
                 verticalrate |-> DictGet(rec, "verticalrate"),
                 alert |-> DictGet(rec, "alert"),
                 emergency |-> DictGet(rec, "emergency"),
                 spi |-> DictGet(rec, "spi"),
                 onground |-> DictGet(rec, "onground"),
                 count |-> IF "count" \in DOMAIN rec THEN rec["count"] ELSE PyInt(0)]]

\* Lines 367-371 raise ValueError for some record the loop reaches.
SnapshotRaises(ac, ages, t) ==
    \E h \in DOMAIN ac :
        Qualifies(ac, ages, h, t) /\ ~StrptimeValid(GeneratedText(ac[h]))

\* Lines 377-378 raise KeyError for some record the loop reaches: msg['callsign']
\* or msg['squawk'] of a record without that key.
SnapshotKeyError(ac, ages, t) ==
    \E h \in DOMAIN ac :
        Qualifies(ac, ages, h, t) /\ ~({"callsign", "squawk"} \subseteq DOMAIN ac[h])

\* What the for loop of lines 358-394 raises ("none": it completes).
SnapshotRaised(ac, ages, t) ==
    IF SnapshotRaises(ac, ages, t) THEN "ValueError"
    ELSE IF SnapshotKeyError(ac, ages, t) THEN "KeyError"
    ELSE "none"

Snapshot(ac, ages, t) ==
    LET keys == SeqOf({h \in DOMAIN ac : Qualifies(ac, ages, h, t)})
    IN  [i \in 1..Len(keys) |-> Entry(keys[i], ac[keys[i]])]

(***************************************************************************)
(* InfluxDB.write: the line protocol.                                      *)
(***************************************************************************)
TagOrder == <<"hexident", "callsign", "squawk">>

FieldOrder == <<"generated", "altitude", "speed", "track", "latitude", "longitude",
                "verticalrate", "alert", "emergency", "spi", "onground", "count">>

RECURSIVE Join(_, _)
Join(strs, sep) ==
    IF Len(strs) = 0 THEN ""
    ELSE IF Len(strs) = 1 THEN strs[1]
    ELSE strs[1] \o sep \o Join(Tail(strs), sep)

RECURSIVE ZeroPad(_, _)
ZeroPad(s, n) == IF Len(s) >= n THEN s ELSE ZeroPad("0" \o s, n)

\* '{}'.format(v) of a float in the range Python prints without an exponent.
FloatRepr(v) ==
    LET mag == IF v.m < 0 THEN 0 - v.m ELSE v.m
        ds == ZeroPad(ToString(mag), v.e + 1)
        whole == SubSeq(ds, 1, Len(ds) - v.e)
        frac == IF v.e = 0 THEN "0" ELSE SubSeq(ds, Len(ds) - v.e + 1, Len(ds))
    IN  (IF v.m < 0 THEN "-" ELSE "") \o whole \o "." \o frac

\* v == n for a Python value v and an integer n: a bool compares like 1 or 0.
PyEqInt(v, n) ==
    CASE v.t = "bool" -> (IF v.v THEN 1 ELSE 0) = n
      [] v.t = "int" -> v.v = n
      [] OTHER -> FALSE

\* Line 263
BoolText(v) == IF PyEqInt(v, -1) THEN "t" ELSE "f"

\* Lines 257-273: the texts appended to fields for key k with value v.
EncodeField(k, v) ==
    CASE v.t = "None" -> <<>>
      [] v.t = "bool" -> <<k \o "=" \o BoolText(v)>>
      [] v.t = "int" -> <<k \o "=" \o ToString(v.v) \o "i">>
      [] v.t = "float" -> <<k \o "=" \o FloatRepr(v)>>
      [] v.t = "str" -> <<k \o "=\"" \o v.v \o "\"">>

RECURSIVE EncodeFields(_, _)
EncodeFields(fields, i) ==
    IF i > Len(FieldOrder) THEN <<>>
    ELSE EncodeField(FieldOrder[i], fields[FieldOrder[i]]) \o EncodeFields(fields, i + 1)

EncodeTags(tags) == [i \in 1..Len(TagOrder) |-> TagOrder[i] \o "=" \o tags[TagOrder[i]].v]

\* Lines 275-280; no entry of main has a 'timestamp' key, so the time is now.
EncodeLine(measurement, d, t) ==
    measurement \o "," \o Join(EncodeTags(d.tags), ",") \o " "
        \o Join(EncodeFields(d.fields, 1), ",") \o " " \o ToString(t)

\* Line 282: the body posted for the batch.
write(measurement, batch, t) ==
    Join([i \in 1..Len(batch) |-> EncodeLine(measurement, batch[i], t)], "\n")

\* Lines 283-287
WriteResult(status_code) == status_code = 204

(***************************************************************************)
(* Dump1090.receive (lines 227-242) once recv has returned chunk: the line *)
(* returned (None if data holds no CR LF) and the buffer left.             *)
(***************************************************************************)
receive(buffer, chunk) ==
    LET d == buffer \o chunk
        newline == Find(d, "\r\n", 1)
    IN  IF newline > 0
        THEN [ret |-> PyStr(SubSeq(d, 1, newline - 1)),
              data |-> SubSeq(d, newline + 2, Len(d))]
        ELSE [ret |-> PyNone, data |-> d]

(***************************************************************************)
(* The inputs: lines of the feed, and the chunks recv returns.             *)
(***************************************************************************)
GoodDate == "2024/01/01"

\* Matches the grammar ([0-9/]+) and is no date.
BadDate == "1/"

MkLineFlags(hexident, gen_date, callsign, track, squawk, alert, emergency, spi, onground) ==
    "MSG,3,1,1," \o hexident \o ",1," \o gen_date \o ",10:00:00.000,2024/01/01,10:00:00.000,"
        \o callsign \o ",5000,250," \o track \o ",51.5,-0.1,0," \o squawk \o ","
        \o alert \o "," \o emergency \o "," \o spi \o "," \o onground

MkLine(hexident, gen_date, callsign, track, squawk, alert) ==
    MkLineFlags(hexident, gen_date, callsign, track, squawk, alert, "0", "0", "0")

LineFullA == MkLine("A1", GoodDate, "T1", "90", "1234", "-1")

LineSparseA == MkLine("A1", GoodDate, "", "", "", "")

LineBlankCallsignA == MkLine("A1", GoodDate, " ", "", "", "0")

LineFullB == MkLine("B2", GoodDate, "T2", "-5", "7000", "0")

LineBadDateB == MkLine("B2", BadDate, "T2", "", "7000", "")

\* Matches the grammar ([\d\-]*) and is no integer.
LineBadTrack == MkLine("A1", GoodDate, "T1", "-", "1234", "0")

\* Wrong field count.
LineShort == "MSG,3,1,1,A1"

LineLong == LineFullA \o ",0"

\* Illegal characters in a constrained field.
LineBadHex == MkLine("a1", GoodDate, "T1", "90", "1234", "0")

LineBadSquawk == MkLine("A1", GoodDate, "T1", "90", "12x4", "0")

LineNoMarker == "XSG" \o SubSeq(LineFullA, 4, Len(LineFullA))

MalformedLines == {LineShort, LineLong, LineBadHex, LineBadSquawk, LineNoMarker, ""}

CRLF == "\r\n"

\* What the feed sends in the collector loop.
FeedLines == {LineFullA, LineSparseA, LineFullB, LineBadDateB, LineShort}

HeadLen == 10

\* What one recv returns: a whole line, two lines at once, the two parts of a
\* line, or nothing (the peer has closed).
Chunks ==
    {l \o CRLF : l \in FeedLines}
        \cup {LineFullA \o CRLF \o LineFullB \o CRLF,
              SubSeq(LineFullA, 1, HeadLen),
              SubSeq(LineFullA, HeadLen + 1, Len(LineFullA)) \o CRLF,
              ""}

\* The hex-identity of a line, read off its fifth comma-separated piece.
HexOf(l) == Split(l, ",")[5]

(***************************************************************************)
(* Bounds.                                                                 *)
(***************************************************************************)
\* The clock stops at MaxTime.
MaxTime == 4

\* The feed delivers at most MaxInputs non-empty chunks.
MaxInputs == 2

(***************************************************************************)
(* State.                                                                  *)
(*   aircrafts, aircrafts_age   AdsbProcessor's two maps                   *)
(*   data                       Dump1090.data, the receive buffer          *)
(*   connected                  the feed socket is open                    *)
(*   run_app                    the global run flag                        *)
(*   now                        time.time()                                *)
(*   pc                         where main is                              *)
(*   last_print, to_send, recv_msg   main's locals (recv_msg is its msg)   *)
(*   raised                     the exception that ended main, or "none"   *)
(*   posted                     history: the requests.post calls made      *)
(*   merged                     history: per identity ever merged, the     *)
(*                              messages merged since the last clear       *)
(*   inputs                     the number of inputs consumed so far       *)
(*   call                       history: the call of receive made in this  *)
(*                              iteration of the loop; the last call on    *)
(*                              the AdsbProcessor when it is driven call   *)
(*                              by call                                    *)
(***************************************************************************)
VARIABLES aircrafts, aircrafts_age, data, connected, run_app, now, pc,
          last_print, to_send, recv_msg, raised, posted, merged, inputs, call

vars == <<aircrafts, aircrafts_age, data, connected, run_app, now, pc,
          last_print, to_send, recv_msg, raised, posted, merged, inputs, call>>

cache == <<aircrafts, aircrafts_age>>

NoCall == [op |-> "none", data |-> "", max_age |-> 0, raised |-> "none"]

\* main up to line 351: the processor is empty, the feed connected, last_print
\* the time of the start.
Init ==
    /\ aircrafts = EmptyDict
    /\ aircrafts_age = EmptyDict
    /\ data = ""
    /\ connected = TRUE
    /\ run_app = TRUE
    /\ now = 0
    /\ pc = "loop"
    /\ last_print = 0
    /\ to_send = <<>>
    /\ recv_msg = PyNone
    /\ raised = "none"
    /\ posted = <<>>
    /\ merged = EmptyDict
    /\ inputs = 0
    /\ call = NoCall

Running == pc \notin {"done", "crashed"}

(***************************************************************************)
(* The collector loop, lines 352-413.                                      *)
(***************************************************************************)
\* Line 352: while run_app (the iteration before, and its call, are over)
LoopTest ==
    /\ pc = "loop"
    /\ pc' = IF run_app THEN "interval" ELSE "exit"
    /\ call' = NoCall
    /\ UNCHANGED <<aircrafts, aircrafts_age, data, connected, run_app, now,
                   last_print, to_send, recv_msg, raised, posted, merged, inputs>>

\* Lines 353-356
CheckInterval ==
    /\ pc = "interval"
    /\ IF (now - last_print) > INTERVAL
       THEN last_print' = now /\ to_send' = <<>> /\ pc' = "snapshot"
       ELSE pc' = "receive" /\ UNCHANGED <<last_print, to_send>>
    /\ UNCHANGED <<aircrafts, aircrafts_age, data, connected, run_app, now,
                   recv_msg, raised, posted, merged, inputs, call>>

\* Lines 358-394: the for loop; what it raises is caught nowhere.
TakeSnapshot ==
    /\ pc = "snapshot"
    /\ IF SnapshotRaised(aircrafts, aircrafts_age, now) # "none"
       THEN /\ pc' = "crashed"
            /\ raised' = SnapshotRaised(aircrafts, aircrafts_age, now)
            /\ UNCHANGED to_send
       ELSE to_send' = Snapshot(aircrafts, aircrafts_age, now)
                /\ pc' = "clear" /\ UNCHANGED raised
    /\ UNCHANGED <<aircrafts, aircrafts_age, data, connected, run_app, now,
                   last_print, recv_msg, posted, merged, inputs, call>>

\* A faulty variant: the batch is written first and the cache swept after.
ClearStep_after_write ==
    /\ pc = "clear"
    /\ posted' = IF Len(to_send) > 0
                 THEN Append(posted, [at |-> last_print,
                                      body |-> write("messages", to_send, now),
                                      status_code |-> 204])
                 ELSE posted
    /\ LET r == clear(aircrafts, aircrafts_age, SweepAge, now)
       IN  aircrafts' = r.aircrafts /\ aircrafts_age' = r.aircrafts_age
    /\ merged' = [h \in DOMAIN merged |-> 0]
    /\ pc' = "receive"
    /\ UNCHANGED <<data, connected, run_app, now, last_print, to_send, recv_msg,
                   raised, inputs, call>>

\* Line 396: ap.clear(INTERVAL * 3)
ClearStep ==
    /\ pc = "clear"
    /\ LET r == clear(aircrafts, aircrafts_age, SweepAge, now)
       IN  aircrafts' = r.aircrafts /\ aircrafts_age' = r.aircrafts_age
    /\ merged' = [h \in DOMAIN merged |-> 0]
    /\ pc' = "write"
    /\ UNCHANGED <<data, connected, run_app, now, last_print, to_send, recv_msg,
                   raised, posted, inputs, call>>

\* A faulty variant: a failed write is tried again.
AfterWrite_retrying(ok) == IF ok THEN "receive" ELSE "write"

\* Lines 397-401: where main goes on once write has returned ok.
AfterWrite(ok) == "receive"

\* The status codes the database answers with.
StatusCodes == {204, 500}

\* Lines 397-401
WriteStep ==
    /\ pc = "write"
    /\ IF Len(to_send) > 0
       THEN \E status_code \in StatusCodes :
                /\ posted' = Append(posted, [at |-> last_print,
                                             body |-> write("messages", to_send, now),
                                             status_code |-> status_code])
                /\ pc' = AfterWrite(WriteResult(status_code))
       ELSE pc' = "receive" /\ UNCHANGED posted
    /\ UNCHANGED <<aircrafts, aircrafts_age, data, connected, run_app, now,
                   last_print, to_send, recv_msg, raised, merged, inputs, call>>

\* A call of dump1090.receive() and what recv raised in it ("none": recv has
\* returned a chunk).
ReceiveCall(exc) == [op |-> "receive", data |-> "", max_age |-> 0, raised |-> exc]

\* Lines 403-409 with 229-236: recv returns a chunk and send succeeds.
ReceiveChunk ==
    /\ pc = "receive"
    /\ \E chunk \in Chunks :
        /\ chunk # "" => inputs < MaxInputs
        /\ inputs' = IF chunk # "" THEN inputs + 1 ELSE inputs
        /\ LET r == receive(data, chunk)
           IN  /\ data' = r.data
               /\ recv_msg' = r.ret
               /\ pc' = IF r.ret = PyNone THEN "loop" ELSE "process"
    /\ call' = ReceiveCall("none")
    /\ UNCHANGED <<aircrafts, aircrafts_age, connected, run_app, now, last_print,
                   to_send, raised, posted, merged>>

\* Lines 237-238: recv times out; whatever data holds, ret stays None.
ReceiveTimeout ==
    /\ pc = "receive"
    /\ recv_msg' = PyNone
    /\ pc' = "loop"
    /\ call' = ReceiveCall("socket.timeout")
    /\ UNCHANGED <<aircrafts, aircrafts_age, data, connected, run_app, now,
                   last_print, to_send, raised, posted, merged, inputs>>

\* A faulty variant: the socket error is taken for a timeout.
ReceiveError_ignored ==
    /\ pc = "receive"
    /\ pc' = "loop"
    /\ call' = ReceiveCall("AdsbError")
    /\ UNCHANGED <<aircrafts, aircrafts_age, data, connected, run_app, now, last_print,
                   to_send, recv_msg, raised, posted, merged, inputs>>

\* Lines 239-240 and 405-407: a socket error becomes AdsbError, main prints it and
\* clears run_app; msg keeps its value.
ReceiveError ==
    /\ pc = "receive"
    /\ run_app' = FALSE
    /\ pc' = "loop"
    /\ call' = ReceiveCall("AdsbError")
    /\ UNCHANGED <<aircrafts, aircrafts_age, data, connected, now, last_print,
                   to_send, recv_msg, raised, posted, merged, inputs>>

\* Line 410: ap.msg(msg), in the else branch of the try, where nothing catches
\* what it raises.
ProcessStep ==
    /\ pc = "process"
    /\ LET r == msg(aircrafts, aircrafts_age, recv_msg.v, now)
       IN  /\ aircrafts' = r.aircrafts
           /\ aircrafts_age' = r.aircrafts_age
           /\ IF r.raised = "none"
              THEN /\ pc' = "loop"
                   /\ UNCHANGED raised
                   /\ merged' = LET h == HexOf(recv_msg.v)
                                IN  DictSet(merged, h, DictGet0(merged, h) + 1)
              ELSE /\ pc' = "crashed"
                   /\ raised' = r.raised
                   /\ UNCHANGED merged
    /\ UNCHANGED <<data, connected, run_app, now, last_print, to_send, recv_msg,
                   posted, inputs, call>>

\* Lines 412-413
ExitStep ==
    /\ pc = "exit"
    /\ connected' = FALSE
    /\ pc' = "done"
    /\ UNCHANGED <<aircrafts, aircrafts_age, data, run_app, now, last_print,
                   to_send, recv_msg, raised, posted, merged, inputs, call>>

\* exit_gracefully, lines 294-296: SIGINT or SIGTERM at any moment.
Signal ==
    /\ Running
    /\ run_app
    /\ run_app' = FALSE
    /\ UNCHANGED <<aircrafts, aircrafts_age, data, connected, now, pc, last_print,
                   to_send, recv_msg, raised, posted, merged, inputs, call>>

\* Time passes while main waits in recv (the socket's timeout is one second).
Tick ==
    /\ pc = "receive"
    /\ now < MaxTime
    /\ now' = now + 1
    /\ UNCHANGED <<aircrafts, aircrafts_age, data, connected, run_app, pc, last_print,
                   to_send, recv_msg, raised, posted, merged, inputs, call>>

Next ==
    \/ LoopTest
    \/ CheckInterval
    \/ TakeSnapshot
    \/ ClearStep
    \/ WriteStep
    \/ ReceiveChunk
    \/ ReceiveTimeout
    \/ ReceiveError
    \/ ProcessStep
    \/ ExitStep
    \/ Signal
    \/ Tick

Spec == Init /\ [][Next]_vars

(***************************************************************************)
(* The AdsbProcessor driven call by call: any sequence of msg and clear    *)
(* calls, with time passing between them.                                  *)
(***************************************************************************)
\* At most MaxCalls calls are made.
MaxCalls == 3

ApiLines ==
    {LineFullA, LineSparseA, LineBlankCallsignA, LineFullB, LineBadTrack} \cup MalformedLines

ClearAges == {0, INTERVAL, SweepAge}

InitCache ==
    /\ aircrafts = EmptyDict
    /\ aircrafts_age = EmptyDict
    /\ data = ""
    /\ connected = FALSE
    /\ run_app = TRUE
    /\ now = 0
    /\ pc = "api"
    /\ last_print = 0
    /\ to_send = <<>>
    /\ recv_msg = PyNone
    /\ raised = "none"
    /\ posted = <<>>
    /\ merged = EmptyDict
    /\ inputs = 0
    /\ call = NoCall

CallMsg ==
    /\ pc = "api"
    /\ inputs < MaxCalls
    /\ \E l \in ApiLines :
        LET r == msg(aircrafts, aircrafts_age, l, now)
        IN  /\ aircrafts' = r.aircrafts
            /\ aircrafts_age' = r.aircrafts_age
            /\ call' = [op |-> "msg", data |-> l, max_age |-> 0, raised |-> r.raised]
            /\ merged' = IF r.raised = "none"
                         THEN DictSet(merged, HexOf(l), DictGet0(merged, HexOf(l)) + 1)
                         ELSE merged
    /\ inputs' = inputs + 1
    /\ UNCHANGED <<data, connected, run_app, now, pc, last_print, to_send, recv_msg,
                   raised, posted>>

CallClear ==
    /\ pc = "api"
    /\ inputs < MaxCalls
    /\ \E max_age \in ClearAges :
        LET r == clear(aircrafts, aircrafts_age, max_age, now)
        IN  /\ aircrafts' = r.aircrafts
            /\ aircrafts_age' = r.aircrafts_age
            /\ call' = [op |-> "clear", data |-> "", max_age |-> max_age, raised |-> "none"]
    /\ merged' = [h \in DOMAIN merged |-> 0]
    /\ inputs' = inputs + 1
    /\ UNCHANGED <<data, connected, run_app, now, pc, last_print, to_send, recv_msg,
                   raised, posted>>

ApiTick ==
    /\ pc = "api"
    /\ now < MaxTime
    /\ now' = now + 1
    /\ UNCHANGED <<aircrafts, aircrafts_age, data, connected, run_app, pc, last_print,
                   to_send, recv_msg, raised, posted, merged, inputs, call>>

NextCache == CallMsg \/ CallClear \/ ApiTick

SpecCache == InitCache /\ [][NextCache]_vars

(***************************************************************************)
(* The snapshot of main's for loop taken of a processor driven call by     *)
(* call: any sequence of msg calls and snapshots, with time passing.       *)
(***************************************************************************)
CallSnapshot ==
    /\ pc = "api"
    /\ inputs < MaxCalls
    /\ LET exc == SnapshotRaised(aircrafts, aircrafts_age, now)
       IN  /\ call' = [op |-> "snapshot", data |-> "", max_age |-> 0, raised |-> exc]
           /\ to_send' = IF exc = "none"
                         THEN Snapshot(aircrafts, aircrafts_age, now)
                         ELSE to_send
    /\ inputs' = inputs + 1
    /\ UNCHANGED <<aircrafts, aircrafts_age, data, connected, run_app, now, pc,
                   last_print, recv_msg, raised, posted, merged>>

NextSnap == CallMsg \/ CallSnapshot \/ ApiTick

SpecSnap == InitCache /\ [][NextSnap]_vars

(***************************************************************************)
(* One line taken from the feed to the wire: msg, the snapshot, write.     *)
(***************************************************************************)
\* Raw tokens of a flag field ([\d\-]*).
FlagTokens == {"-1", "0", "1", "-", ""}

RoundTripLines ==
    {MkLineFlags("A1", GoodDate, "T1", "90", "1234", a, e, s, g) :
        a \in FlagTokens, e \in FlagTokens, s \in FlagTokens, g \in FlagTokens}

InitRoundTrip ==
    /\ aircrafts = EmptyDict
    /\ aircrafts_age = EmptyDict
    /\ data = ""
    /\ connected = TRUE
    /\ run_app = TRUE
    /\ now = 0
    /\ pc = "rt_msg"
    /\ last_print = 0
    /\ to_send = <<>>
    /\ recv_msg \in {PyStr(l) : l \in RoundTripLines}
    /\ raised = "none"
    /\ posted = <<>>
    /\ merged = EmptyDict
    /\ inputs = 0
    /\ call = NoCall

RoundTripMsg ==
    /\ pc = "rt_msg"
    /\ LET r == msg(aircrafts, aircrafts_age, recv_msg.v, now)
       IN  /\ aircrafts' = r.aircrafts
           /\ aircrafts_age' = r.aircrafts_age
           /\ raised' = r.raised
    /\ pc' = "rt_snapshot"
    /\ UNCHANGED <<data, connected, run_app, now, last_print, to_send, recv_msg,
                   posted, merged, inputs, call>>

RoundTripSnapshot ==
    /\ pc = "rt_snapshot"
    /\ raised = "none"
    /\ to_send' = Snapshot(aircrafts, aircrafts_age, now)
    /\ pc' = "rt_write"
    /\ UNCHANGED <<aircrafts, aircrafts_age, data, connected, run_app, now, last_print,
                   recv_msg, raised, posted, merged, inputs, call>>

RoundTripWrite ==
    /\ pc = "rt_write"
    /\ Len(to_send) > 0
    /\ posted' = <<[at |-> last_print, body |-> write("messages", to_send, now),
                    status_code |-> 204]>>
    /\ pc' = "rt_done"
    /\ UNCHANGED <<aircrafts, aircrafts_age, data, connected, run_app, now, last_print,
                   to_send, recv_msg, raised, merged, inputs, call>>

NextRoundTrip == RoundTripMsg \/ RoundTripSnapshot \/ RoundTripWrite

SpecRoundTrip == InitRoundTrip /\ [][NextRoundTrip]_vars

(***************************************************************************)
(* The claims.                                                             *)
(***************************************************************************)
\* A step that is a call of AdsbProcessor.msg, resp. clear (SpecCache).
IsMsgCall == inputs' = inputs + 1 /\ call'.op = "msg"

IsClearCall == inputs' = inputs + 1 /\ call'.op = "clear"

Count(rec) == rec["count"].v

\* C1: msg on a line that does not match the grammar (wrong field count, an
\* illegal character, no marker, the empty line) raises AdsbError and leaves
\* both maps, every field and count included, as they were.
C1_MalformedLeavesCache ==
    [][(IsMsgCall /\ call'.data \in MalformedLines)
        => /\ call'.raised = "AdsbError"
           /\ aircrafts' = aircrafts
           /\ aircrafts_age' = aircrafts_age]_vars

\* A malformed line was given to a processor that holds a record.
C1_Witness ==
    /\ call.op = "msg"
    /\ call.data \in MalformedLines
    /\ call.raised = "AdsbError"
    /\ aircrafts # EmptyDict

\* C2: a line of the feed that fails the grammar never ends the collector
\* loop: main is never ended by the AdsbError of msg.
C2_MalformedLineDropped == ~(pc = "crashed" /\ raised = "AdsbError")

\* C3: when msg merges a message into an existing record, every field the
\* line carries (a non-empty piece) holds the new normalised value, and every
\* other field of the stored record keeps its value; no field appears from
\* nowhere.
C3_MergeFieldSparse ==
    [][(IsMsgCall /\ call'.raised = "none" /\ aircrafts # EmptyDict
            /\ HexOf(call'.data) \in DOMAIN aircrafts)
        => \E pieces \in {Split(call'.data, ",")} :
           LET h == pieces[5]
           IN  /\ h \in DOMAIN aircrafts'
               /\ \A i \in 1..Len(REGEXP_MSG) :
                    LET f == REGEXP_MSG[i].name
                        raw == pieces[i + 1]
                    IN  IF raw # ""
                        THEN /\ f \in DOMAIN aircrafts'[h]
                             /\ aircrafts'[h][f] = NORMALIZE_MSG(f, raw)
                        ELSE IF f \in DOMAIN aircrafts[h]
                        THEN /\ f \in DOMAIN aircrafts'[h]
                             /\ aircrafts'[h][f] = aircrafts[h][f]
                        ELSE f \notin DOMAIN aircrafts'[h]]_vars

\* A line without callsign and squawk was merged into a record that had them
\* from an earlier message, and they are still there.
C3_Witness ==
    /\ call.op = "msg"
    /\ call.data = LineSparseA
    /\ "A1" \in DOMAIN aircrafts
    /\ Count(aircrafts["A1"]) >= 2
    /\ DictGet(aircrafts["A1"], "callsign") = PyStr("T1")
    /\ DictGet(aircrafts["A1"], "squawk") = PyStr("1234")

\* C4: in the collector loop the count of every cached record is the number
\* of messages merged for its identity since the last emission cycle.
C4_CountIsMergedSinceCycle ==
    \A h \in DOMAIN aircrafts : Count(aircrafts[h]) = DictGet0(merged, h)

\* After a cycle, one record still has the count 0 it was reset to and
\* another, merged since, has count 1.
C4_Witness ==
    /\ last_print > 0
    /\ \E h \in DOMAIN aircrafts : Count(aircrafts[h]) = 0
    /\ \E h \in DOMAIN aircrafts : Count(aircrafts[h]) = 1

\* C5: after any sequence of msg and clear calls the two maps have the same
\* keys.
C5_LockStep == DOMAIN aircrafts = DOMAIN aircrafts_age

\* A clear has evicted one identity and kept another.
C5_Witness ==
    /\ call.op = "clear"
    /\ aircrafts # EmptyDict
    /\ \E h \in DOMAIN merged : h \notin DOMAIN aircrafts

\* C6: every entry the snapshot puts into the batch is of a record that has
\* callsign or squawk and whose age is at most the emission interval.
C6_SnapshotFiltering ==
    [][(pc = "snapshot" /\ pc' = "clear")
        => \A i \in 1..Len(to_send') :
            LET h == to_send'[i].tags["hexident"].v
            IN  /\ h \in DOMAIN aircrafts
                /\ DOMAIN aircrafts[h] \cap {"callsign", "squawk"} # {}
                /\ (now - aircrafts_age[h]) <= INTERVAL]_vars

InBatch(h) == \E i \in 1..Len(to_send) : to_send[i].tags["hexident"].v = h

\* A snapshot has just left out a fresh record without callsign and squawk
\* and a record with both that is older than the interval.
C6_Witness ==
    /\ pc = "clear"
    /\ \E h \in DOMAIN aircrafts :
        /\ DOMAIN aircrafts[h] \cap {"callsign", "squawk"} = {}
        /\ (now - aircrafts_age[h]) <= INTERVAL
        /\ ~InBatch(h)
    /\ \E h \in DOMAIN aircrafts :
        /\ HasIdentity(aircrafts[h])
        /\ (now - aircrafts_age[h]) > INTERVAL
        /\ ~InBatch(h)

\* The field texts of the first line of a posted body (the callsign of the
\* round trip's lines has no space in it).
WireFields(body) ==
    LET parts == Split(Split(body, "\n")[1], " ")
        fs == Split(parts[2], ",")
    IN  {fs[i] : i \in 1..Len(fs)}

\* The raw token of a field of a line.
RawToken(l, field) == Split(l, ",")[GroupIndex(field) + 1]

\* C7: a flag whose raw token is -1 is written as t, one whose raw token is
\* anything else but empty is written as f.
C7_BoolRoundTrip ==
    pc = "rt_done"
        => \A f \in BoolFields :
            LET raw == RawToken(recv_msg.v, f)
                fields == WireFields(posted[1].body)
            IN  /\ raw = "-1" => (f \o "=t") \in fields
                /\ (raw # "-1" /\ raw # "") => (f \o "=f") \in fields

\* C8: clear(T) removes from both maps every identity older than T and leaves
\* every other identity in both maps, its last-seen time and its fields (all
\* but count) as they were.
C8_Sweep ==
    [][IsClearCall
        => \A h \in DOMAIN aircrafts \cup DOMAIN aircrafts_age :
            IF (now - aircrafts_age[h]) > call'.max_age
            THEN h \notin DOMAIN aircrafts' /\ h \notin DOMAIN aircrafts_age'
            ELSE /\ h \in DOMAIN aircrafts' /\ h \in DOMAIN aircrafts_age'
                 /\ aircrafts_age'[h] = aircrafts_age[h]
                 /\ DOMAIN aircrafts'[h] = DOMAIN aircrafts[h]
                 /\ \A f \in DOMAIN aircrafts[h] \ {"count"} :
                        aircrafts'[h][f] = aircrafts[h][f]]_vars

\* A clear has removed one of two identities and kept the other.
C8_Witness ==
    /\ call.op = "clear"
    /\ inputs = MaxCalls
    /\ Cardinality(DOMAIN merged) = 2
    /\ Cardinality(DOMAIN aircrafts) = 1
    /\ Cardinality(DOMAIN aircrafts_age) = 1

\* C9: in the collector loop a record leaves the cache only in the sweep of
\* an emission cycle and only when it is older than three intervals; the
\* steps of an emission cycle change nothing of a record that stays but its
\* count, which the sweep sets to 0.
C9_Lifecycle ==
    [][LET sweeping == pc = "clear" /\ pc' = "write"
       IN  /\ \A h \in DOMAIN aircrafts :
                h \notin DOMAIN aircrafts'
                    => sweeping /\ (now - aircrafts_age[h]) > 3 * INTERVAL
           /\ pc \in {"interval", "snapshot", "clear", "write"}
                => \A h \in DOMAIN aircrafts \cap DOMAIN aircrafts' :
                    /\ h \in DOMAIN aircrafts_age'
                    /\ aircrafts_age'[h] = aircrafts_age[h]
                    /\ aircrafts'[h] = IF sweeping
                                       THEN DictSet(aircrafts[h], "count", PyInt(0))
                                       ELSE aircrafts[h]]_vars

\* A record with callsign and squawk, too old to be emitted, has come through
\* a cycle's sweep with count 0.
C9_Witness ==
    /\ pc = "write"
    /\ \E h \in DOMAIN aircrafts :
        /\ Count(aircrafts[h]) = 0
        /\ HasIdentity(aircrafts[h])
        /\ (now - aircrafts_age[h]) > INTERVAL

\* C10: when the database answers a cycle's post with a failure, main goes on
\* to receive with the cache untouched, swept and with every count 0, as after
\* a success, and that cycle's batch had not been posted before.
C10_FailedWriteDropped ==
    [][(pc = "write" /\ Len(posted') = Len(posted) + 1
            /\ ~WriteResult(posted'[Len(posted')].status_code))
        => /\ pc' = "receive"
           /\ raised' = "none"
           /\ aircrafts' = aircrafts /\ aircrafts_age' = aircrafts_age
           /\ \A h \in DOMAIN aircrafts' :
                /\ Count(aircrafts'[h]) = 0
                /\ (now - aircrafts_age'[h]) <= SweepAge
           /\ \A i \in 1..Len(posted) : posted[i].at # last_print]_vars

\* After a failed post the loop has gone on into a later emission cycle.
C10_Witness ==
    /\ Len(posted) > 0
    /\ ~WriteResult(posted[1].status_code)
    /\ last_print > posted[1].at
    /\ Running

\* C11: msg on a line that matches the grammar completes without raising
\* anything.
C11_ParseTotal ==
    (call.op = "msg" /\ re_msg_match(call.data).matched) => call.raised = "none"

\* C17: no record of the cache has the empty string as its callsign.
C17_CallsignNeverEmpty ==
    \A h \in DOMAIN aircrafts :
        "callsign" \in DOMAIN aircrafts[h] => aircrafts[h]["callsign"] # PyStr("")

\* C13: a socket error in receive sets the run flag to false and merges
\* nothing, after which no iteration starts and main disconnects; a timeout
\* in receive gives None, merges nothing and leaves the run flag and the
\* connection alone, after which the loop goes on.
C13_FeedErrorVsTimeout ==
    [][/\ (pc = "receive" /\ call'.op = "receive" /\ call'.raised = "AdsbError")
            => /\ ~run_app'
               /\ pc' = "loop"
               /\ aircrafts' = aircrafts /\ aircrafts_age' = aircrafts_age
               /\ merged' = merged
               /\ raised' = "none"
       /\ (pc = "loop" /\ ~run_app) => pc' \in {"loop", "exit"}
       /\ pc = "exit" => (pc' = "exit" \/ (pc' = "done" /\ ~connected'))
       /\ (pc = "receive" /\ call'.op = "receive" /\ call'.raised = "socket.timeout")
            => /\ recv_msg' = PyNone
               /\ pc' = "loop"
               /\ aircrafts' = aircrafts /\ aircrafts_age' = aircrafts_age
               /\ merged' = merged
               /\ run_app' = run_app /\ connected'
               /\ raised' = "none"
       /\ (pc = "loop" /\ run_app /\ call.raised = "socket.timeout")
            => pc' \in {"loop", "interval"}]_vars

\* A socket error has ended an iteration of a loop that holds a record.
C13_Witness ==
    /\ pc = "loop"
    /\ call = ReceiveCall("AdsbError")
    /\ ~run_app
    /\ connected
    /\ aircrafts # EmptyDict

\* C14: when receive has returned None, the buffer holds no complete line.
C14_NoneOnlyWhenNoLine ==
    (pc = "loop" /\ call.op = "receive" /\ call.raised # "AdsbError" /\ recv_msg = PyNone)
        => Find(data, CRLF, 1) = 0

\* The posts made for the emission cycle in progress.
PostsOfCycle == {i \in 1..Len(posted) : posted[i].at = last_print}

\* C15: the cache is swept and reset only once the cycle's batch has been
\* handed to write.
C15_WriteBeforeClear ==
    (pc = "write" /\ Len(to_send) > 0) => PostsOfCycle # {}

\* C15, as the code has it: in an emission cycle the snapshot comes first, the
\* sweep and reset second, the write last; the batch written is the one taken
\* before the sweep, so its counts are those from before the reset.
C15_SnapshotClearWrite ==
    [][/\ pc = "snapshot" => pc' \in {"snapshot", "clear", "crashed"}
       /\ pc = "clear" => pc' \in {"clear", "write"}
       /\ pc = "write" => pc' \in {"write", "receive"}
       /\ (pc = "clear" /\ pc' = "write")
            => to_send' = to_send /\ posted' = posted /\ PostsOfCycle = {}
       /\ (pc = "write" /\ posted' # posted)
            => /\ PostsOfCycle = {}
               /\ posted' = Append(posted, posted'[Len(posted')])
               /\ posted'[Len(posted')].at = last_print
               /\ posted'[Len(posted')].body = write("messages", to_send, now)
               /\ \A i \in 1..Len(to_send) :
                    LET h == to_send[i].tags["hexident"].v
                    IN  /\ h \in DOMAIN aircrafts
                        /\ Count(aircrafts[h]) = 0
                        /\ to_send[i].fields["count"].v >= 1]_vars

\* A batch has been posted whose line carries count 1 while the record in the
\* cache is already at count 0.
C15_Witness ==
    /\ pc = "receive"
    /\ PostsOfCycle # {}
    /\ "count=1i" \in WireFields(posted[Len(posted)].body)
    /\ \A h \in DOMAIN aircrafts : Count(aircrafts[h]) = 0
    /\ aircrafts # EmptyDict

\* C16: a qualifying record whose generated date and time cannot be converted
\* never ends main.
C16_TimestampFailureLocal ==
    ~(/\ pc = "crashed"
      /\ raised = "ValueError"
      /\ SnapshotRaises(aircrafts, aircrafts_age, now))

\* C18: every entry of a batch has count >= 1, and at the snapshot every record
\* that had no message since the last reset is older than the interval.
C18_EmittedCountPositive ==
    /\ \A i \in 1..Len(to_send) : to_send[i].fields["count"].v >= 1
    /\ pc = "snapshot"
        => \A h \in DOMAIN aircrafts :
            Count(aircrafts[h]) = 0 => (now - aircrafts_age[h]) > INTERVAL

\* A snapshot has emitted one aircraft and left out another that has callsign
\* and squawk and stands at count 0.
C18_Witness ==
    /\ pc = "clear"
    /\ Len(to_send) > 0
    /\ \E h \in DOMAIN aircrafts :
        /\ Count(aircrafts[h]) = 0
        /\ HasIdentity(aircrafts[h])
        /\ ~InBatch(h)

\* C19: a snapshot never fails on a missing key, every entry of its batch has
\* the three tags hexident, callsign and squawk, each a string, and no
\* record without callsign or without squawk is in the batch.
C19_AllThreeTags ==
    [][(inputs' = inputs + 1 /\ call'.op = "snapshot")
        => /\ call'.raised # "KeyError"
           /\ \A i \in 1..Len(to_send') :
                /\ DOMAIN to_send'[i].tags = {"hexident", "callsign", "squawk"}
                /\ \A k \in DOMAIN to_send'[i].tags : to_send'[i].tags[k].t = "str"
           /\ \A h \in DOMAIN aircrafts :
                ~({"callsign", "squawk"} \subseteq DOMAIN aircrafts[h])
                    => \A i \in 1..Len(to_send') : to_send'[i].tags["hexident"].v # h]_vars

\* A snapshot has emitted one aircraft and left out a fresh one that has a
\* callsign and no squawk.
C19_Witness ==
    /\ call.op = "snapshot"
    /\ call.raised = "none"
    /\ Len(to_send) = 1
    /\ \E h \in DOMAIN aircrafts :
        /\ "callsign" \in DOMAIN aircrafts[h]
        /\ "squawk" \notin DOMAIN aircrafts[h]
        /\ (now - aircrafts_age[h]) <= INTERVAL
        /\ ~InBatch(h)

(***************************************************************************)
(* The collector loop with its scheduling.  main is a sequential program   *)
(* that does not stop while it has a step to take: recv returns, times out *)
(* after one second (line 219) or fails, and every other statement         *)
(* completes.  Every step of main changes pc and no other step does, so    *)
(* the steps of main are the steps that change pc.  The clock advances as  *)
(* long as it is below MaxTime.                                            *)
(***************************************************************************)
PcValues ==
    {"loop", "interval", "snapshot", "clear", "write", "receive", "process", "exit",
     "done", "crashed"}

\* main, not yet ended, moves on.
Advance == Running /\ pc' \in PcValues

SpecLive == Spec /\ WF_pc(Advance) /\ WF_vars(Tick)

\* C12: once the run flag is false and main is in its loop, main ends
\* disconnected.
C12_GracefulShutdown == (~run_app /\ Running) ~> (pc = "done" /\ ~connected)

\* The identities the feed carries.
Idents == {HexOf(l) : l \in FeedLines}

\* Seen last more than three intervals ago.
Stale(h) == h \in DOMAIN aircrafts /\ (now - aircrafts_age[h]) > 3 * INTERVAL

\* C20: a sweep removes from both maps every aircraft older than three
\* intervals and keeps, out of the batch, every aircraft older than one
\* interval and not older than three; and an aircraft older than three
\* intervals, with an emission cycle due and the loop running, comes to be in
\* neither map unless a further message for it arrives or the loop ends.
C20_StaleEvicted ==
    /\ [][(pc = "clear" /\ pc' = "write")
            => \A h \in DOMAIN aircrafts :
                /\ Stale(h) => h \notin DOMAIN aircrafts' /\ h \notin DOMAIN aircrafts_age'
                /\ ((now - aircrafts_age[h]) > INTERVAL /\ ~Stale(h))
                    => /\ h \in DOMAIN aircrafts' /\ h \in DOMAIN aircrafts_age'
                       /\ ~InBatch(h)]_vars
    /\ \A h \in Idents :
        (Stale(h) /\ (now - last_print) > INTERVAL /\ run_app /\ Running)
            ~> \/ h \notin DOMAIN aircrafts /\ h \notin DOMAIN aircrafts_age
               \/ h \in DOMAIN aircrafts /\ ~Stale(h)
               \/ ~run_app
               \/ ~Running

\* A sweep has removed one aircraft and kept another that is too old to be
\* emitted.
C20_Witness ==
    /\ pc = "write"
    /\ \E h \in DOMAIN merged : h \notin DOMAIN aircrafts /\ h \notin DOMAIN aircrafts_age
    /\ \E h \in DOMAIN aircrafts :
        /\ HasIdentity(aircrafts[h])
        /\ (now - aircrafts_age[h]) > INTERVAL
        /\ ~InBatch(h)
====
